---- MODULE Spec2Model ----
(***************************************************************************)
(* Model of dump_parsed.py: load a pickled collection of ModuleInfo        *)
(* records, canonicalize it (sorted, default values stripped) and write    *)
(* the result as a YAML document.                                          *)
(*                                                                         *)
(* Python values are modelled as follows.                                  *)
(*   str          a sequence of code points, compared as Python compares   *)
(*                strings (StrLess)                                        *)
(*   None         the one-element sequence <<0>> (PyNone); it has no order *)
(*   list, tuple  a sequence                                               *)
(*   dict,        a sequence of <<key, value>> pairs in insertion order,   *)
(*   OrderedDict  at most one pair per key                                 *)
(*   object       a record of its attributes                               *)
(***************************************************************************)
EXTENDS Integers, Sequences, FiniteSets, TLC

VARIABLES sys_argv, fs, fs0, pc, pkl_path, output_path, modules, summary,
          output, status, stdout, accesses, variant, result

vars == <<sys_argv, fs, fs0, pc, pkl_path, output_path, modules, summary,
          output, status, stdout, accesses, variant, result>>

-----------------------------------------------------------------------------
(* Bounds of the model.                                                    *)

\* longest collection drawn for an input entity
MaxLen == 2
\* most module records in a snapshot that repeats or mixes module names
MaxMods == 2

-----------------------------------------------------------------------------
(* Python built-ins.                                                       *)

PyNone == <<0>>

\* an object yaml.dump cannot represent (its __reduce_ex__ raises)
PyOpaque == <<1>>

SeqMap(f(_), s) == [i \in 1..Len(s) |-> f(s[i])]

SeqsUpTo(S, n) == UNION {[1..k -> S] : k \in 0..n}

RECURSIVE SumSeq(_)
SumSeq(s) == IF s = <<>> THEN 0 ELSE Head(s) + SumSeq(Tail(s))

\* str.__lt__: code point by code point, a proper prefix is smaller
RECURSIVE StrLess(_, _)
StrLess(s, t) ==
    IF t = <<>> THEN FALSE
    ELSE IF s = <<>> THEN TRUE
    ELSE IF Head(s) # Head(t) THEN Head(s) < Head(t)
    ELSE StrLess(Tail(s), Tail(t))

\* comparing with None raises TypeError; sorted() compares as soon as there
\* are two elements
SortRaises(xs) == Len(xs) >= 2 /\ \E i \in 1..Len(xs) : xs[i] = PyNone

\* the order of sort keys: a key is <<str, int>>, compared as Python compares
\* tuples; the key of a sort by a str alone is <<str, 0>>
KeyLess(a, b) == StrLess(a[1], b[1]) \/ (a[1] = b[1] /\ a[2] < b[2])

StrKeys(strs) == SeqMap(LAMBDA x : <<x, 0>>, strs)

Reverse(xs) == [i \in 1..Len(xs) |-> xs[Len(xs) + 1 - i]]

\* sorted(xs, key=...), keys[i] the key of xs[i]: a stable sort.  Each element
\* goes behind every element whose key is not greater than its own.
sorted(xs, keys) ==
    LET Insert(acc, n) ==
            LET k == Cardinality({i \in 1..Len(acc) : ~KeyLess(keys[n], keys[acc[i]])})
            IN  SubSeq(acc, 1, k) \o <<n>> \o SubSeq(acc, k + 1, Len(acc))
        F[n \in 0..Len(xs)] == IF n = 0 THEN <<>> ELSE Insert(F[n - 1], n)
    IN  [i \in 1..Len(xs) |-> xs[F[Len(xs)][i]]]

\* the list left as given
sorted_str_unsorted(xs) == xs

\* sorted(xs) of a list of str
sorted_str(xs) == sorted(xs, StrKeys(xs))

\* the collection left in insertion order
sorted_by_name_unsorted(xs) == xs

\* a sort that is not stable: entities of one name come out in reverse order
sorted_by_name_ties_reversed(xs) ==
    sorted(Reverse(xs), StrKeys(SeqMap(LAMBDA x : x.name, Reverse(xs))))

\* sorted(xs, key=lambda x: x.name)
sorted_by_name(xs) == sorted(xs, StrKeys(SeqMap(LAMBDA x : x.name, xs)))

\* dict: d[k] = v replaces the value of a key already there, in place
DictHas(d, k) == \E i \in 1..Len(d) : d[i][1] = k

DictGet(d, k) == d[CHOOSE i \in 1..Len(d) : d[i][1] = k][2]

DictSet(d, k, v) ==
    IF DictHas(d, k)
    THEN LET i == CHOOSE j \in 1..Len(d) : d[j][1] = k
         IN  SubSeq(d, 1, i - 1) \o <<<<k, v>>>> \o SubSeq(d, i + 1, Len(d))
    ELSE Append(d, <<k, v>>)

DictKeys(d) == SeqMap(LAMBDA p : p[1], d)

\* OrderedDict(pairs), dict(pairs)
OrderedDict(pairs) ==
    LET F[n \in 0..Len(pairs)] ==
            IF n = 0 THEN <<>> ELSE DictSet(F[n - 1], pairs[n][1], pairs[n][2])
    IN  F[Len(pairs)]

\* a run of statements "if cond: d[k] = v": the pairs of those whose condition
\* holds, and the dict after them
When(cond, k, v) == IF cond THEN << <<k, v>> >> ELSE <<>>

DictUpdate(d, pairs) == OrderedDict(d \o pairs)

\* str() of a list of plain identifiers: "['a', 'b']"
RECURSIVE StrOfList(_)
StrOfList(ts) ==
    IF ts = <<>> THEN <<>>
    ELSE <<39>> \o Head(ts) \o <<39>>
         \o (IF Len(ts) > 1 THEN <<44, 32>> ELSE <<>>) \o StrOfList(Tail(ts))

\* str() of {'arg_types': [...]}: "{'arg_types': ['a', 'b']}"
StrOfSignature(x) ==
    <<123, 39, 97, 114, 103, 95, 116, 121, 112, 101, 115, 39, 58, 32, 91>>
    \o StrOfList(DictGet(x, "arg_types")) \o <<93, 125>>

-----------------------------------------------------------------------------
(* The canonicalizer.                                                      *)

\* the arguments with their default values kept
signature_args_with_defaults(args) == args

\* [(name, typ) for name, typ, _ in args]
signature_args(args) == SeqMap(LAMBDA a : <<a[1], a[2]>>, args)

serialize_function(func) ==
    << <<"name", func.name>>,
       <<"return_type", func.return_type>>,
       <<"args", signature_args(func.args)>>,
       <<"inline", func.inline>>,
       <<"namespace", func.namespace>> >>

serialize_method(method) ==
    << <<"name", method.name>>,
       <<"return_type", method.return_type>>,
       <<"args", signature_args(method.args)>>,
       <<"const", method.const>>,
       <<"virtual", method.virtual>>,
       <<"pure_virtual", method.pure_virtual>>,
       <<"inline", method.inline>> >>

serialize_field(field) ==
    << <<"name", field.name>>,
       <<"type", field.type>>,
       <<"const", field.const>>,
       <<"pod", field.pod>> >>

serialize_enum(enum) ==
    << <<"name", enum.name>>,
       <<"values", enum.values>>,
       <<"anonymous", enum.anonymous>> >>

\* hasattr(typedef, a) and typedef.a: the attribute is there and not empty
serialize_typedef(typedef) ==
    DictUpdate(<< <<"name", typedef.name>>,
                  <<"type", typedef.type>>,
                  <<"pod", typedef.pod>> >>,
               When("template_base" \in DOMAIN typedef /\ typedef.template_base # <<>>,
                    "template_base", typedef.template_base)
               \o When("template_args" \in DOMAIN typedef
                       /\ typedef.template_args # <<>>,
                       "template_args", typedef.template_args))

constructor_signatures(constructors) ==
    LET sigs == SeqMap(LAMBDA c : << <<"arg_types", SeqMap(LAMBDA a : a[2], c.args)>> >>,
                       constructors)
    IN  sorted(sigs, StrKeys(SeqMap(StrOfSignature, sigs)))

method_names(methods) == sorted_str(SeqMap(LAMBDA m : m.name, methods))

\* the fields key written without its condition
class_fields_always(cls) ==
    << <<"fields", SeqMap(serialize_field, sorted_by_name(cls.fields))>> >>

\* if cls.fields: result['fields'] = [...]
class_fields(cls) ==
    When(cls.fields # <<>>, "fields",
         SeqMap(serialize_field, sorted_by_name(cls.fields)))

serialize_class(cls) ==
    DictUpdate(
        OrderedDict(<<
            <<"name", cls.name>>,
            <<"abstract", cls.abstract>>,
            <<"superclass", sorted_str(cls.superclass)>>,
            <<"counts", OrderedDict(<<
                <<"constructors", Len(cls.constructors)>>,
                <<"methods", Len(cls.methods)>>,
                <<"static_methods", Len(cls.static_methods)>>,
                <<"operators", Len(cls.operators)>>,
                <<"fields", Len(cls.fields)>>,
                <<"enums", Len(cls.enums)>> >>)>> >>),
        class_fields(cls)
        \o When(cls.enums # <<>>, "enums",
                SeqMap(serialize_enum, sorted_by_name(cls.enums)))
        \o When(cls.constructors # <<>>, "constructor_signatures",
                constructor_signatures(cls.constructors))
        \o When(cls.methods # <<>>, "method_names", method_names(cls.methods))
        \o When(cls.static_methods # <<>>, "static_method_names",
                method_names(cls.static_methods))
        \o When(cls.operators # <<>>, "operator_names", method_names(cls.operators)))

type_params_of(cls_tmpl) ==
    SeqMap(LAMBDA p : << <<"type", p[1]>>, <<"name", p[2]>>, <<"default", p[3]>> >>,
           cls_tmpl.type_params)

serialize_class_template(cls_tmpl) ==
    DictSet(serialize_class(cls_tmpl), "type_params", type_params_of(cls_tmpl))

\* sorted([{'name': f.name, 'arg_count': len(f.args)} ...],
\*        key=lambda x: (x['name'], x['arg_count']))
function_names(functions) ==
    LET pairs == SeqMap(LAMBDA f : << <<"name", f.name>>,
                                     <<"arg_count", Len(f.args)>> >>, functions)
    IN  sorted(pairs, SeqMap(LAMBDA x : <<DictGet(x, "name"), DictGet(x, "arg_count")>>,
                             pairs))

classes_of(classes) ==
    OrderedDict(SeqMap(LAMBDA cls : <<cls.name, serialize_class(cls)>>,
                       sorted_by_name(classes)))

class_templates_of(class_templates) ==
    OrderedDict(SeqMap(LAMBDA tmpl : <<tmpl.name, serialize_class_template(tmpl)>>,
                       sorted_by_name(class_templates)))

serialize_module(module) ==
    DictUpdate(
        OrderedDict(<<
            <<"name", module.name>>,
            <<"dependencies", sorted_str(module.dependencies_headers)>>,
            <<"namespaces", sorted_str(module.namespaces)>>,
            <<"counts", OrderedDict(<<
                <<"headers", Len(module.headers)>>,
                <<"classes", Len(module.classes)>>,
                <<"class_templates", Len(module.class_templates)>>,
                <<"typedefs", Len(module.typedefs)>>,
                <<"enums", Len(module.enums)>>,
                <<"functions", Len(module.functions)>>,
                <<"operators", Len(module.operators)>> >>)>> >>),
        When(module.classes # <<>>, "classes", classes_of(module.classes))
        \o When(module.class_templates # <<>>, "class_templates",
                class_templates_of(module.class_templates))
        \o When(module.typedefs # <<>>, "typedefs",
                SeqMap(serialize_typedef, sorted_by_name(module.typedefs)))
        \o When(module.enums # <<>>, "enums",
                SeqMap(serialize_enum, sorted_by_name(module.enums)))
        \o When(module.functions # <<>>, "function_names",
                function_names(module.functions))
        \o When(module.operators # <<>>, "operator_names",
                function_names(module.operators)))

\* the sorts of serialize_class and serialize_module that can raise TypeError
class_raises(cls) == SortRaises(cls.superclass)

module_raises(module) ==
    \/ SortRaises(module.dependencies_headers)
    \/ SortRaises(module.namespaces)
    \/ \E i \in 1..Len(module.classes) : class_raises(module.classes[i])
    \/ \E i \in 1..Len(module.class_templates) :
           class_raises(module.class_templates[i])

summary_of(mods) ==
    OrderedDict(<<
        <<"total_modules", Len(mods)>>,
        <<"total_classes", SumSeq(SeqMap(LAMBDA m : Len(m.classes), mods))>>,
        <<"total_class_templates",
          SumSeq(SeqMap(LAMBDA m : Len(m.class_templates), mods))>>,
        <<"total_typedefs", SumSeq(SeqMap(LAMBDA m : Len(m.typedefs), mods))>>,
        <<"total_enums", SumSeq(SeqMap(LAMBDA m : Len(m.enums), mods))>>,
        <<"total_functions", SumSeq(SeqMap(LAMBDA m : Len(m.functions), mods))>> >>)

serialized_modules_of(mods) ==
    OrderedDict(SeqMap(LAMBDA module : <<module.name, serialize_module(module)>>,
                       sorted_by_name(mods)))

\* output = OrderedDict([('summary', summary), ('modules', serialized_modules)])
output_structure(sum, serialized) ==
    OrderedDict(<< <<"summary", sum>>, <<"modules", serialized>> >>)

\* the structure dump_parsed_pkl hands to yaml.dump for a loaded collection
output_of(mods) == output_structure(summary_of(mods), serialized_modules_of(mods))

\* yaml.dump raises RepresenterError on an object it cannot represent; the
\* values it is handed that are not names or counts are the types of typedefs
\* and of fields
class_detail_unrepresentable(detail) ==
    /\ DictHas(detail, "fields")
    /\ \E i \in 1..Len(DictGet(detail, "fields")) :
           DictGet(DictGet(detail, "fields")[i], "type") = PyOpaque

module_detail_unrepresentable(detail) ==
    \/ /\ DictHas(detail, "typedefs")
       /\ \E i \in 1..Len(DictGet(detail, "typedefs")) :
              DictGet(DictGet(detail, "typedefs")[i], "type") = PyOpaque
    \/ /\ DictHas(detail, "classes")
       /\ \E i \in 1..Len(DictGet(detail, "classes")) :
              class_detail_unrepresentable(DictGet(detail, "classes")[i][2])
    \/ /\ DictHas(detail, "class_templates")
       /\ \E i \in 1..Len(DictGet(detail, "class_templates")) :
              class_detail_unrepresentable(DictGet(detail, "class_templates")[i][2])

yaml_raises(doc) ==
    \E i \in 1..Len(DictGet(doc, "modules")) :
        module_detail_unrepresentable(DictGet(doc, "modules")[i][2])

-----------------------------------------------------------------------------
(* The snapshots the runs are given: records of the shapes the canonicalizer *)
(* reads, drawn from small pools.  A pool holds entities that share a name   *)
(* and differ in content, so a collection can repeat a name.                 *)

NameA == <<97>>
NameAA == <<97, 97>>
NameB == <<98>>
Names == {NameA, NameAA, NameB}

TInt == <<105>>
TDbl == <<100>>

Defaults == {PyNone, <<48>>}

FieldInfo(name, type) == [name |-> name, type |-> type, const |-> FALSE, pod |-> TRUE]

EnumInfo(name, values) == [name |-> name, values |-> values, anonymous |-> FALSE]

TypedefInfo(name, type) == [name |-> name, type |-> type, pod |-> TRUE]

MethodInfo(name, args) ==
    [name |-> name, return_type |-> TInt, args |-> args, const |-> FALSE,
     virtual |-> FALSE, pure_virtual |-> FALSE, inline |-> FALSE]

FunctionInfo(name, args) ==
    [name |-> name, return_type |-> TInt, args |-> args, inline |-> FALSE,
     namespace |-> NameA]

ClassInfo(name) ==
    [name |-> name, abstract |-> FALSE, superclass |-> <<>>, constructors |-> <<>>,
     methods |-> <<>>, static_methods |-> <<>>, operators |-> <<>>,
     fields |-> <<>>, enums |-> <<>>]

ClassTemplateInfo(cls, type_params) ==
    [name |-> cls.name, abstract |-> cls.abstract, superclass |-> cls.superclass,
     constructors |-> cls.constructors, methods |-> cls.methods,
     static_methods |-> cls.static_methods, operators |-> cls.operators,
     fields |-> cls.fields, enums |-> cls.enums, type_params |-> type_params]

ModuleInfo(name) ==
    [name |-> name, dependencies_headers |-> <<>>, namespaces |-> <<>>,
     headers |-> <<>>, classes |-> <<>>, class_templates |-> <<>>,
     typedefs |-> <<>>, enums |-> <<>>, functions |-> <<>>, operators |-> <<>>]

FieldPool == {FieldInfo(NameA, TInt), FieldInfo(NameA, TDbl), FieldInfo(NameB, TInt)}

EnumPool == {EnumInfo(NameA, <<>>), EnumInfo(NameA, << <<NameB, 1>> >>),
             EnumInfo(NameB, << <<NameA, 0>> >>)}

TypedefPool ==
    {TypedefInfo(NameA, TInt),
     [name |-> NameA, type |-> TDbl, pod |-> FALSE,
      template_base |-> NameB, template_args |-> <<TInt>>],
     [name |-> NameB, type |-> TInt, pod |-> TRUE,
      template_base |-> <<>>, template_args |-> <<>>]}

ArgsPool == {<<>>, << <<NameA, TInt, PyNone>> >>, << <<NameA, TDbl, <<48>>>> >>,
             << <<NameA, TInt, <<48>>>>, <<NameB, TDbl, PyNone>> >>}

MethodPool == {MethodInfo(NameA, <<>>), MethodInfo(NameB, <<>>),
               MethodInfo(NameA, << <<NameA, TInt, <<48>>>> >>)}

ConstructorPool == {MethodInfo(NameA, args) : args \in ArgsPool}

FunctionPool == {FunctionInfo(NameA, <<>>), FunctionInfo(NameB, <<>>),
                 FunctionInfo(NameA, << <<NameA, TInt, <<48>>>> >>)}

TypeParamPool == {<<TInt, NameB, PyNone>>, <<TDbl, NameA, <<48>>>>}

\* the classes used where a module holds several
FewClasses ==
    {ClassInfo(NameA), ClassInfo(NameB),
     [ClassInfo(NameA) EXCEPT !.fields = <<FieldInfo(NameB, TInt)>>,
                              !.superclass = <<NameB, NameA>>],
     [ClassInfo(NameAA) EXCEPT !.methods = <<MethodInfo(NameB, <<>>),
                                             MethodInfo(NameA, <<>>)>>,
                               !.constructors = <<MethodInfo(NameAA, <<>>)>>]}

\* a class with every collection filled
FullClass ==
    [ClassInfo(NameA) EXCEPT
        !.superclass = <<NameB>>,
        !.constructors = <<MethodInfo(NameA, <<>>)>>,
        !.methods = <<MethodInfo(NameB, <<>>)>>,
        !.static_methods = <<MethodInfo(NameA, <<>>)>>,
        !.operators = <<MethodInfo(NameB, <<>>)>>,
        !.fields = <<FieldInfo(NameB, TInt)>>,
        !.enums = <<EnumInfo(NameB, << <<NameA, 0>> >>)>>]

\* a class like base, one of its collections drawn in full
ClassesLike(base) ==
    {[base EXCEPT !.superclass = xs] : xs \in SeqsUpTo(Names \cup {PyNone}, MaxLen)}
    \cup {[base EXCEPT !.fields = xs] :
             xs \in SeqsUpTo(FieldPool \cup {FieldInfo(NameAA, PyOpaque)}, MaxLen)}
    \cup {[base EXCEPT !.enums = xs] : xs \in SeqsUpTo(EnumPool, MaxLen)}
    \cup {[base EXCEPT !.constructors = xs] : xs \in SeqsUpTo(ConstructorPool, MaxLen)}
    \cup {[base EXCEPT !.methods = xs] : xs \in SeqsUpTo(MethodPool, MaxLen)}
    \cup {[base EXCEPT !.static_methods = xs] : xs \in SeqsUpTo(MethodPool, MaxLen)}
    \cup {[base EXCEPT !.operators = xs] : xs \in SeqsUpTo(MethodPool, MaxLen)}

Classes == FewClasses \cup ClassesLike(ClassInfo(NameA)) \cup ClassesLike(FullClass)

FewClassTemplates ==
    {ClassTemplateInfo(ClassInfo(NameA), <<>>),
     ClassTemplateInfo(ClassInfo(NameB), << <<TInt, NameB, PyNone>> >>),
     ClassTemplateInfo([ClassInfo(NameA) EXCEPT !.fields = <<FieldInfo(NameA, TInt)>>],
                       << <<TInt, NameB, PyNone>>, <<TDbl, NameA, <<48>>>> >>)}

ClassTemplates ==
    FewClassTemplates
    \cup {ClassTemplateInfo(cls, tp) :
             cls \in FewClasses, tp \in SeqsUpTo(TypeParamPool, MaxLen)}

\* a module with every collection filled
FullModule ==
    [ModuleInfo(NameA) EXCEPT
        !.dependencies_headers = <<NameB>>,
        !.namespaces = <<NameA>>,
        !.headers = <<NameA, NameB>>,
        !.classes = <<FullClass>>,
        !.class_templates =
            <<ClassTemplateInfo(FullClass, << <<TInt, NameB, PyNone>> >>)>>,
        !.typedefs = <<TypedefInfo(NameB, TInt)>>,
        !.enums = <<EnumInfo(NameB, <<>>)>>,
        !.functions = <<FunctionInfo(NameB, <<>>)>>,
        !.operators = <<FunctionInfo(NameA, <<>>)>>]

\* a module like base, one of its collections drawn in full
ModulesLike(base) ==
    {[base EXCEPT !.dependencies_headers = xs] :
        xs \in SeqsUpTo(Names \cup {PyNone}, MaxLen)}
    \cup {[base EXCEPT !.namespaces = xs] : xs \in SeqsUpTo(Names, MaxLen)}
    \cup {[base EXCEPT !.headers = xs] : xs \in SeqsUpTo(Names, MaxLen)}
    \cup {[base EXCEPT !.classes = xs] : xs \in SeqsUpTo(FewClasses, MaxLen)}
    \cup {[base EXCEPT !.classes = <<cls>>] : cls \in Classes}
    \cup {[base EXCEPT !.class_templates = xs] :
             xs \in SeqsUpTo(FewClassTemplates, MaxLen)}
    \cup {[base EXCEPT !.class_templates = <<tmpl>>] : tmpl \in ClassTemplates}
    \cup {[base EXCEPT !.typedefs = xs] :
             xs \in SeqsUpTo(TypedefPool \cup {TypedefInfo(NameAA, PyOpaque)}, MaxLen)}
    \cup {[base EXCEPT !.enums = xs] : xs \in SeqsUpTo(EnumPool, MaxLen)}
    \cup {[base EXCEPT !.functions = xs] : xs \in SeqsUpTo(FunctionPool, MaxLen)}
    \cup {[base EXCEPT !.operators = xs] : xs \in SeqsUpTo(FunctionPool, MaxLen)}

Modules == ModulesLike(ModuleInfo(NameA)) \cup ModulesLike(FullModule)

\* the modules used where a snapshot holds several
FewModules ==
    {ModuleInfo(NameA), ModuleInfo(NameB),
     [ModuleInfo(NameA) EXCEPT
         !.classes = <<ClassInfo(NameB),
                       [ClassInfo(NameA) EXCEPT !.fields = <<FieldInfo(NameB, TInt)>>,
                                                !.superclass = <<NameB, NameA>>]>>,
         !.functions = <<FunctionInfo(NameA, <<>>)>>,
         !.enums = <<EnumInfo(NameA, <<>>)>>],
     [ModuleInfo(NameAA) EXCEPT
         !.typedefs = <<TypedefInfo(NameA, TInt)>>,
         !.class_templates =
             <<ClassTemplateInfo(ClassInfo(NameA),
                                 << <<TInt, NameB, PyNone>>, <<TDbl, NameA, <<48>>>> >>)>>]}

Snapshots == {<<m>> : m \in Modules} \cup SeqsUpTo(FewModules, MaxMods)

-----------------------------------------------------------------------------
(* The file system and the command line.                                   *)

Path(name) == [parent |-> "work", name |-> name]

\* Path.with_name
with_name(path, name) == [path EXCEPT !.name = name]

Prog == Path("dump_parsed.py")
PklPath == Path("parsed_output.pkl")
YmlPath == Path("parsed_dump.yml")
OutPath == Path("out.yml")
NoPath == Path("")
Paths == {PklPath, YmlPath, OutPath}

Absent == [kind |-> "absent"]
\* bytes pickle.load cannot decode
Garbage == [kind |-> "garbage"]
\* what an earlier run or the user left at a path
OldFile == [kind |-> "old"]
EmptyFile == [kind |-> "empty"]
Pickle(mods) == [kind |-> "pickle", data |-> mods]
\* the text yaml.dump writes for a document
Yaml(doc) == [kind |-> "yaml", data |-> doc]

SameFile(a, b) ==
    /\ a.kind = b.kind
    /\ a.kind \in {"pickle", "yaml"} => a.data = b.data

\* a check that finds every path
exists_always(files, path) == TRUE

\* Path.exists
exists(files, path) == files[path].kind # "absent"

\* the file systems of the runs: one file, the others all absent or all old
FileSystems(contents) ==
    {[p \in Paths |-> IF p = at THEN c ELSE rest] :
        at \in Paths, c \in contents, rest \in {Absent, OldFile}}

CommandLines ==
    {<<Prog>>} \cup {<<Prog, p>> : p \in Paths}
    \cup {<<Prog, p, q>> : p \in Paths, q \in Paths}

\* the snapshots tried under every command line and file system
FewSnapshots ==
    SeqsUpTo(FewModules, MaxMods)
    \cup {<<[ModuleInfo(NameA) EXCEPT !.dependencies_headers = <<NameA, PyNone>>]>>,
          <<[ModuleInfo(NameA) EXCEPT !.typedefs = <<TypedefInfo(NameA, PyOpaque)>>]>>}

Idle ==
    /\ pkl_path = NoPath /\ output_path = NoPath
    /\ modules = <<>> /\ summary = <<>> /\ output = <<>>
    /\ status = 0 /\ stdout = <<>> /\ accesses = <<>>

Init ==
    /\ \/ /\ sys_argv \in CommandLines
          /\ fs \in FileSystems({Pickle(s) : s \in FewSnapshots} \cup {Garbage})
       \/ /\ sys_argv = <<Prog, PklPath>>
          /\ \E s \in Snapshots :
                 fs = [p \in Paths |-> IF p = PklPath THEN Pickle(s) ELSE Absent]
    /\ fs0 = fs
    /\ pc = "main"
    /\ Idle
    /\ variant = <<>> /\ result = <<>>

\* lines 246-250
Usage ==
    /\ pc = "main"
    /\ Len(sys_argv) < 2
    /\ stdout' = Append(stdout, "usage")
    /\ status' = 1
    /\ pc' = "exit"
    /\ UNCHANGED <<sys_argv, fs, fs0, pkl_path, output_path, modules, summary,
                   output, accesses, variant, result>>

\* lines 252-255
NotFound ==
    /\ pc = "main"
    /\ Len(sys_argv) >= 2
    /\ ~exists(fs, sys_argv[2])
    /\ pkl_path' = sys_argv[2]
    /\ accesses' = Append(accesses, <<"exists", sys_argv[2]>>)
    /\ stdout' = Append(stdout, "error_file_not_found")
    /\ status' = 1
    /\ pc' = "exit"
    /\ UNCHANGED <<sys_argv, fs, fs0, output_path, modules, summary, output,
                   variant, result>>

\* lines 252-263, up to the call of dump_parsed_pkl
ChoosePaths ==
    /\ pc = "main"
    /\ Len(sys_argv) >= 2
    /\ exists(fs, sys_argv[2])
    /\ pkl_path' = sys_argv[2]
    /\ output_path' = IF Len(sys_argv) > 2 THEN sys_argv[3]
                      ELSE with_name(sys_argv[2], "parsed_dump.yml")
    /\ accesses' = Append(accesses, <<"exists", sys_argv[2]>>)
    /\ pc' = "load"
    /\ UNCHANGED <<sys_argv, fs, fs0, modules, summary, output, status, stdout,
                   variant, result>>

\* lines 193-198
Load ==
    /\ pc = "load"
    /\ fs[pkl_path].kind = "pickle"
    /\ modules' = fs[pkl_path].data
    /\ accesses' = accesses \o <<<<"open_rb", pkl_path>>, <<"load", pkl_path>>>>
    /\ stdout' = stdout \o <<"loading", "found_modules">>
    /\ pc' = "summary"
    /\ UNCHANGED <<sys_argv, fs, fs0, pkl_path, output_path, summary, output,
                   status, variant, result>>

\* lines 193-196, pickle.load raising
LoadFails ==
    /\ pc = "load"
    /\ fs[pkl_path].kind # "pickle"
    /\ accesses' = accesses \o <<<<"open_rb", pkl_path>>, <<"load", pkl_path>>>>
    /\ stdout' = Append(stdout, "loading")
    /\ status' = 1
    /\ pc' = "exit"
    /\ UNCHANGED <<sys_argv, fs, fs0, pkl_path, output_path, modules, summary,
                   output, variant, result>>

\* lines 200-208
Summarise ==
    /\ pc = "summary"
    /\ summary' = summary_of(modules)
    /\ pc' = "serialize"
    /\ UNCHANGED <<sys_argv, fs, fs0, pkl_path, output_path, modules, output,
                   status, stdout, accesses, variant, result>>

\* lines 210-221
Serialize ==
    /\ pc = "serialize"
    /\ \A i \in 1..Len(modules) : ~module_raises(modules[i])
    /\ output' = output_structure(summary, serialized_modules_of(modules))
    /\ stdout' = Append(stdout, "serializing")
    /\ pc' = "open_output"
    /\ UNCHANGED <<sys_argv, fs, fs0, pkl_path, output_path, modules, summary,
                   status, accesses, variant, result>>

\* lines 210-215, a sort raising TypeError
SerializeFails ==
    /\ pc = "serialize"
    /\ \E i \in 1..Len(modules) : module_raises(modules[i])
    /\ stdout' = Append(stdout, "serializing")
    /\ status' = 1
    /\ pc' = "exit"
    /\ UNCHANGED <<sys_argv, fs, fs0, pkl_path, output_path, modules, summary,
                   output, accesses, variant, result>>

\* lines 224-225: open(output_path, 'w') creates the file or truncates it
OpenOutput ==
    /\ pc = "open_output"
    /\ fs' = [fs EXCEPT ![output_path] = EmptyFile]
    /\ accesses' = Append(accesses, <<"open_w", output_path>>)
    /\ stdout' = Append(stdout, "writing")
    /\ pc' = "yaml_dump"
    /\ UNCHANGED <<sys_argv, fs0, pkl_path, output_path, modules, summary, output,
                   status, variant, result>>

\* lines 226-242
Dump ==
    /\ pc = "yaml_dump"
    /\ ~yaml_raises(output)
    /\ fs' = [fs EXCEPT ![output_path] = Yaml(output)]
    /\ accesses' = Append(accesses, <<"dump", output_path>>)
    /\ stdout' = stdout \o <<"done", "summary">>
    /\ status' = 0
    /\ pc' = "exit"
    /\ UNCHANGED <<sys_argv, fs0, pkl_path, output_path, modules, summary, output,
                   variant, result>>

\* lines 226-233, yaml.dump raising before it has written anything
DumpFails ==
    /\ pc = "yaml_dump"
    /\ yaml_raises(output)
    /\ accesses' = Append(accesses, <<"dump", output_path>>)
    /\ status' = 1
    /\ pc' = "exit"
    /\ UNCHANGED <<sys_argv, fs, fs0, pkl_path, output_path, modules, summary,
                   output, stdout, variant, result>>

Next ==
    \/ Usage
    \/ NotFound
    \/ ChoosePaths
    \/ Load
    \/ LoadFails
    \/ Summarise
    \/ Serialize
    \/ SerializeFails
    \/ OpenOutput
    \/ Dump
    \/ DumpFails

Spec == Init /\ [][Next]_vars

-----------------------------------------------------------------------------
(* The canonicalizer applied to two snapshots that hold the same entities: *)
(* the second starts as the first and is then reordered (SpecOrder) or     *)
(* given other default values (SpecDefaults).                              *)

ModuleCollections ==
    {"dependencies_headers", "namespaces", "headers", "classes", "class_templates",
     "typedefs", "enums", "functions", "operators"}

ClassCollections ==
    {"superclass", "constructors", "methods", "static_methods", "operators",
     "fields", "enums"}

ClassHolders == {"classes", "class_templates"}

SwapAt(xs, i) == [xs EXCEPT ![i] = xs[i + 1], ![i + 1] = xs[i]]

InitGiven ==
    /\ modules \in {s \in Snapshots : \A i \in 1..Len(s) : ~module_raises(s[i])}
    /\ variant = modules
    /\ result = <<>>
    /\ pc = "given"
    /\ sys_argv = <<Prog>>
    /\ fs = [p \in Paths |-> Absent]
    /\ fs0 = fs
    /\ pkl_path = NoPath /\ output_path = NoPath
    /\ summary = <<>> /\ output = <<>>
    /\ status = 0 /\ stdout = <<>> /\ accesses = <<>>

Untouched ==
    UNCHANGED <<sys_argv, fs, fs0, pkl_path, output_path, modules, summary, output,
                status, stdout, accesses>>

\* another insertion order of the module records
ReorderModules ==
    /\ pc = "given"
    /\ \E i \in 1..(Len(variant) - 1) : variant' = SwapAt(variant, i)
    /\ UNCHANGED <<pc, result>>
    /\ Untouched

\* another insertion order of one collection of a module
ReorderInModule ==
    /\ pc = "given"
    /\ \E i \in 1..Len(variant), coll \in ModuleCollections :
           \E j \in 1..(Len(variant[i][coll]) - 1) :
               variant' = [variant EXCEPT ![i][coll] = SwapAt(@, j)]
    /\ UNCHANGED <<pc, result>>
    /\ Untouched

\* another insertion order of one collection of a class or class template
ReorderInClass ==
    /\ pc = "given"
    /\ \E i \in 1..Len(variant), holder \in ClassHolders :
           \E c \in 1..Len(variant[i][holder]), coll \in ClassCollections :
               \E j \in 1..(Len(variant[i][holder][c][coll]) - 1) :
                   variant' = [variant EXCEPT ![i][holder][c][coll] = SwapAt(@, j)]
    /\ UNCHANGED <<pc, result>>
    /\ Untouched

\* dump_parsed_pkl's structure for both snapshots (lines 200-221)
Canonicalize ==
    /\ pc = "given"
    /\ result' = <<output_of(modules), output_of(variant)>>
    /\ pc' = "compared"
    /\ UNCHANGED variant
    /\ Untouched

NextOrder ==
    \/ ReorderModules
    \/ ReorderInModule
    \/ ReorderInClass
    \/ Canonicalize

SpecOrder == InitGiven /\ [][NextOrder]_vars

\* another default value for one parameter of a function or operator
ChangeFunctionDefault ==
    /\ pc = "given"
    /\ \E i \in 1..Len(variant), coll \in {"functions", "operators"} :
           \E j \in 1..Len(variant[i][coll]) :
               \E k \in 1..Len(variant[i][coll][j].args), d \in Defaults :
                   variant' = [variant EXCEPT ![i][coll][j].args[k][3] = d]
    /\ UNCHANGED <<pc, result>>
    /\ Untouched

\* another default value for one parameter of a constructor, method, static
\* method or operator of a class or class template
ChangeMethodDefault ==
    /\ pc = "given"
    /\ \E i \in 1..Len(variant), holder \in ClassHolders :
           \E c \in 1..Len(variant[i][holder]),
              coll \in {"constructors", "methods", "static_methods", "operators"} :
               \E j \in 1..Len(variant[i][holder][c][coll]) :
                   \E k \in 1..Len(variant[i][holder][c][coll][j].args),
                      d \in Defaults :
                       variant' =
                           [variant EXCEPT
                               ![i][holder][c][coll][j].args[k][3] = d]
    /\ UNCHANGED <<pc, result>>
    /\ Untouched

\* every canonical signature of a snapshot: serialize_function of each function
\* and operator, serialize_method of each method, static method and operator,
\* and the structure of dump_parsed_pkl, which holds the constructor signatures
signatures_of(mods) ==
    [functions |-> SeqMap(LAMBDA m : SeqMap(serialize_function,
                                            m.functions \o m.operators), mods),
     methods |-> SeqMap(LAMBDA m :
                     SeqMap(LAMBDA cls : SeqMap(serialize_method,
                                                cls.methods \o cls.static_methods
                                                \o cls.operators),
                            m.classes \o m.class_templates), mods),
     output |-> output_of(mods)]

CanonicalizeSignatures ==
    /\ pc = "given"
    /\ result' = <<signatures_of(modules), signatures_of(variant)>>
    /\ pc' = "compared"
    /\ UNCHANGED variant
    /\ Untouched

NextDefaults ==
    \/ ChangeFunctionDefault
    \/ ChangeMethodDefault
    \/ CanonicalizeSignatures

SpecDefaults == InitGiven /\ [][NextDefaults]_vars

-----------------------------------------------------------------------------
(* What the claims read: the structure handed to yaml.dump, each emitted   *)
(* detail next to the record it was made from.  A name-keyed mapping keeps *)
(* the last record of a repeated name.                                     *)

Emitted == output # <<>>

ModulesMap == DictGet(output, "modules")

LastNamed(xs, name) ==
    xs[CHOOSE i \in 1..Len(xs) :
           /\ xs[i].name = name
           /\ \A j \in (i + 1)..Len(xs) : xs[j].name # name]

Entries(map, xs) ==
    SeqMap(LAMBDA p : [detail |-> p[2], input |-> LastNamed(xs, p[1])], map)

ModuleEntries == Entries(ModulesMap, modules)

MapOf(detail, key) == IF DictHas(detail, key) THEN DictGet(detail, key) ELSE <<>>

ClassEntries(me) == Entries(MapOf(me.detail, "classes"), me.input.classes)

TemplateEntries(me) ==
    Entries(MapOf(me.detail, "class_templates"), me.input.class_templates)

AllClassEntries(me) == ClassEntries(me) \o TemplateEntries(me)

ForAllModules(P(_)) == \A i \in 1..Len(ModuleEntries) : P(ModuleEntries[i])

ForAllClasses(P(_)) ==
    ForAllModules(LAMBDA me :
        \A j \in 1..Len(AllClassEntries(me)) : P(AllClassEntries(me)[j]))

ForAllTemplates(P(_)) ==
    ForAllModules(LAMBDA me :
        \A j \in 1..Len(TemplateEntries(me)) : P(TemplateEntries(me)[j]))

ForSomeModule(P(_)) == \E i \in 1..Len(ModuleEntries) : P(ModuleEntries[i])

ForSomeClass(P(_)) ==
    ForSomeModule(LAMBDA me :
        \E j \in 1..Len(AllClassEntries(me)) : P(AllClassEntries(me)[j]))

\* <<detail key, attribute it is made from, counts key>>
ModuleDetailKeys ==
    {<<"classes", "classes", "classes">>,
     <<"class_templates", "class_templates", "class_templates">>,
     <<"typedefs", "typedefs", "typedefs">>,
     <<"enums", "enums", "enums">>,
     <<"function_names", "functions", "functions">>,
     <<"operator_names", "operators", "operators">>}

ClassDetailKeys ==
    {<<"fields", "fields", "fields">>,
     <<"enums", "enums", "enums">>,
     <<"constructor_signatures", "constructors", "constructors">>,
     <<"method_names", "methods", "methods">>,
     <<"static_method_names", "static_methods", "static_methods">>,
     <<"operator_names", "operators", "operators">>}

NameKeyed == {"classes", "class_templates"}

IsSorted(xs) == \A i \in 1..(Len(xs) - 1) : ~StrLess(xs[i + 1], xs[i])

StrictlyIncreasing(xs) == \A i \in 1..(Len(xs) - 1) : StrLess(xs[i], xs[i + 1])

UniqueNames(xs) ==
    \A i \in 1..Len(xs) : \A j \in 1..Len(xs) : xs[i].name = xs[j].name => i = j

-----------------------------------------------------------------------------
(* C2.                                                                     *)

NoEmptyValue(detail, keys) ==
    \A k \in keys : DictHas(detail, k) => DictGet(detail, k) # <<>>

\* C2 as stated: no key of an emitted module detail, class detail,
\* class-template detail or typedef detail carries an empty list or an empty
\* mapping.
C2_NoEmptyValueAnywhere ==
    Emitted =>
        /\ ForAllModules(LAMBDA me :
               /\ NoEmptyValue(me.detail,
                      {"dependencies", "namespaces"}
                      \cup {k[1] : k \in ModuleDetailKeys})
               /\ \A i \in 1..Len(MapOf(me.detail, "typedefs")) :
                      NoEmptyValue(MapOf(me.detail, "typedefs")[i],
                                   {"template_base", "template_args"}))
        /\ ForAllClasses(LAMBDA ce :
               NoEmptyValue(ce.detail,
                   {"superclass", "type_params"} \cup {k[1] : k \in ClassDetailKeys}))

\* a key written under "if collection:" is there exactly when the collection
\* is not empty; a list has one element for each entity, a mapping at least one
OmitsEmpty(e, keys) ==
    \A k \in keys :
        /\ DictHas(e.detail, k[1]) <=> e.input[k[2]] # <<>>
        /\ DictHas(e.detail, k[1]) =>
               IF k[1] \in NameKeyed
               THEN Len(DictGet(e.detail, k[1])) >= 1
               ELSE Len(DictGet(e.detail, k[1])) = Len(e.input[k[2]])

\* a key written without a condition is there for an empty collection too
AlwaysEmits(e, key, attr) ==
    /\ DictHas(e.detail, key)
    /\ Len(DictGet(e.detail, key)) = Len(e.input[attr])

HasFilled(x, attr) == attr \in DOMAIN x /\ x[attr] # <<>>

TypedefsOmitEmpty(me) ==
    LET details == MapOf(me.detail, "typedefs")
        given == me.input.typedefs
    IN  \A k \in {"template_base", "template_args"} :
            /\ \A i \in 1..Len(details) :
                   DictHas(details[i], k) => DictGet(details[i], k) # <<>>
            /\ Cardinality({i \in 1..Len(details) : DictHas(details[i], k)})
               = Cardinality({i \in 1..Len(given) : HasFilled(given[i], k)})

\* C2, amended: the keys written under a condition (module: classes,
\* class_templates, typedefs, enums, function_names, operator_names; class:
\* fields, enums, constructor_signatures, method_names, static_method_names,
\* operator_names; typedef: template_base, template_args) are emitted exactly
\* for the non-empty collections, a list with one element per entity; the keys
\* dependencies, namespaces, superclass and type_params are always emitted,
\* with an empty list for an empty collection.
C2_EmptyCollectionOmission ==
    Emitted =>
        /\ ForAllModules(LAMBDA me :
               /\ OmitsEmpty(me, ModuleDetailKeys)
               /\ AlwaysEmits(me, "dependencies", "dependencies_headers")
               /\ AlwaysEmits(me, "namespaces", "namespaces")
               /\ TypedefsOmitEmpty(me))
        /\ ForAllClasses(LAMBDA ce :
               /\ OmitsEmpty(ce, ClassDetailKeys)
               /\ AlwaysEmits(ce, "superclass", "superclass"))
        /\ ForAllTemplates(LAMBDA te : AlwaysEmits(te, "type_params", "type_params"))

\* a class without fields and without superclasses next to a class with one
\* field, both emitted
C2_Witness ==
    /\ Emitted
    /\ ForSomeModule(LAMBDA me :
           /\ \E j \in 1..Len(ClassEntries(me)) :
                  /\ ~DictHas(ClassEntries(me)[j].detail, "fields")
                  /\ DictGet(ClassEntries(me)[j].detail, "superclass") = <<>>
           /\ \E j \in 1..Len(ClassEntries(me)) :
                  /\ DictHas(ClassEntries(me)[j].detail, "fields")
                  /\ Len(DictGet(ClassEntries(me)[j].detail, "fields")) = 1)

-----------------------------------------------------------------------------
(* C3.                                                                     *)

CountsMatch(detail, keys) ==
    \A k \in keys :
        DictHas(detail, k[1]) =>
            DictGet(DictGet(detail, "counts"), k[3]) = Len(DictGet(detail, k[1]))

\* C3: in every emitted module detail and class detail, the count of each
\* collection whose detail key is present equals the length of the detail list
\* or the number of keys of the detail mapping.
C3_CountsMatchDetails ==
    Emitted =>
        /\ ForAllModules(LAMBDA me : CountsMatch(me.detail, ModuleDetailKeys))
        /\ ForAllClasses(LAMBDA ce : CountsMatch(ce.detail, ClassDetailKeys))

-----------------------------------------------------------------------------
(* C9.                                                                     *)

SumOfCounts(key) ==
    SumSeq(SeqMap(LAMBDA p : DictGet(DictGet(p[2], "counts"), key), ModulesMap))

\* C9: the summary agrees with the modules mapping written next to it:
\* total_modules is the number of its entries and each other total is the sum
\* of that count over its entries.
C9_SummaryAgreesWithModules ==
    Emitted =>
        LET total(k) == DictGet(DictGet(output, "summary"), k)
        IN  /\ total("total_modules") = Len(ModulesMap)
            /\ total("total_classes") = SumOfCounts("classes")
            /\ total("total_class_templates") = SumOfCounts("class_templates")
            /\ total("total_typedefs") = SumOfCounts("typedefs")
            /\ total("total_enums") = SumOfCounts("enums")
            /\ total("total_functions") = SumOfCounts("functions")

-----------------------------------------------------------------------------
(* C4, C5, C10.                                                            *)

FilesAsBefore == \A p \in Paths : SameFile(fs[p], fs0[p])

\* C4: a run that fails ends with a non-zero status and leaves every file,
\* the destination among them, exactly as it was before the run.
C4_FailureLeavesDestination ==
    pc = "exit" /\ status # 0 => FilesAsBefore

OnlyExistenceChecked == \A i \in 1..Len(accesses) : accesses[i][1] = "exists"

\* C5: without a path argument main prints the usage text and exits with
\* code 1 before any file access; with a snapshot path that does not exist it
\* exits with code 1 without opening or loading the snapshot and without
\* creating or changing any file.
C5_EarlyRejection ==
    /\ Len(sys_argv) < 2 =>
           /\ accesses = <<>>
           /\ FilesAsBefore
           /\ pc \in {"main", "exit"}
           /\ pc = "exit" => status = 1 /\ stdout = <<"usage">>
    /\ Len(sys_argv) >= 2 /\ fs0[sys_argv[2]] = Absent =>
           /\ OnlyExistenceChecked
           /\ FilesAsBefore
           /\ pc \in {"main", "exit"}
           /\ pc = "exit" => status = 1 /\ modules = <<>>

\* a run given a missing snapshot and an output path has exited
C5_Witness ==
    /\ pc = "exit"
    /\ Len(sys_argv) = 3
    /\ fs0[sys_argv[2]] = Absent
    /\ status = 1
    /\ accesses = << <<"exists", sys_argv[2]>> >>
    /\ fs[sys_argv[3]] = Absent

\* C10: after every run, with or without an output path, the snapshot file
\* holds what it held before the run (so the destination is never the
\* snapshot file).
C10_SnapshotNeverModified ==
    pc = "exit" /\ Len(sys_argv) >= 2 =>
        SameFile(fs[sys_argv[2]], fs0[sys_argv[2]])

-----------------------------------------------------------------------------
(* C6.                                                                     *)

\* C6: the keys of every classes mapping, of every class_templates mapping
\* and of the modules mapping are strictly increasing; every superclass,
\* dependencies and namespaces list is sorted; every type_params list holds
\* the template's parameters in the order of the input.
C6_SortCorrectness ==
    Emitted =>
        /\ StrictlyIncreasing(DictKeys(ModulesMap))
        /\ ForAllModules(LAMBDA me :
               /\ StrictlyIncreasing(DictKeys(MapOf(me.detail, "classes")))
               /\ StrictlyIncreasing(DictKeys(MapOf(me.detail, "class_templates")))
               /\ IsSorted(DictGet(me.detail, "dependencies"))
               /\ IsSorted(DictGet(me.detail, "namespaces")))
        /\ ForAllClasses(LAMBDA ce : IsSorted(DictGet(ce.detail, "superclass")))
        /\ ForAllTemplates(LAMBDA te :
               LET tp == DictGet(te.detail, "type_params")
               IN  /\ Len(tp) = Len(te.input.type_params)
                   /\ \A i \in 1..Len(tp) :
                          /\ DictGet(tp[i], "type") = te.input.type_params[i][1]
                          /\ DictGet(tp[i], "name") = te.input.type_params[i][2]
                          /\ DictGet(tp[i], "default") = te.input.type_params[i][3])

\* two modules given out of order, two classes given out of order, a
\* superclass list given out of order, and two template parameters whose
\* names are not in sorted order
C6_Witness ==
    /\ Emitted
    /\ Len(modules) = 2 /\ StrLess(modules[2].name, modules[1].name)
    /\ ForSomeModule(LAMBDA me :
           /\ Len(ClassEntries(me)) = 2
           /\ StrLess(me.input.classes[2].name, me.input.classes[1].name)
           /\ \E j \in 1..2 :
                  /\ Len(ClassEntries(me)[j].input.superclass) = 2
                  /\ ~IsSorted(ClassEntries(me)[j].input.superclass))
    /\ ForSomeModule(LAMBDA me :
           \E j \in 1..Len(TemplateEntries(me)) :
               LET tp == DictGet(TemplateEntries(me)[j].detail, "type_params")
               IN  Len(tp) = 2
                   /\ StrLess(DictGet(tp[2], "name"), DictGet(tp[1], "name")))

-----------------------------------------------------------------------------
(* C8.                                                                     *)

\* every entity is emitted, and of two entities with the same name the one
\* given first is emitted first
KeepsGivenOrder(details, given, ser(_)) ==
    /\ Len(details) = Len(given)
    /\ \A i \in 1..Len(given) : \A j \in (i + 1)..Len(given) :
           given[i].name = given[j].name =>
               \E a \in 1..Len(details) : \E b \in (a + 1)..Len(details) :
                   details[a] = ser(given[i]) /\ details[b] = ser(given[j])

\* C8: entities of one collection that share a name are all emitted, in the
\* order the input collection holds them (fields and enums of a class,
\* typedefs and enums of a module).
C8_StableTies ==
    Emitted =>
        /\ ForAllModules(LAMBDA me :
               /\ KeepsGivenOrder(MapOf(me.detail, "typedefs"), me.input.typedefs,
                                  serialize_typedef)
               /\ KeepsGivenOrder(MapOf(me.detail, "enums"), me.input.enums,
                                  serialize_enum))
        /\ ForAllClasses(LAMBDA ce :
               /\ KeepsGivenOrder(MapOf(ce.detail, "fields"), ce.input.fields,
                                  serialize_field)
               /\ KeepsGivenOrder(MapOf(ce.detail, "enums"), ce.input.enums,
                                  serialize_enum))

\* a class given two fields of one name, the first of type "i", the second of
\* type "d", both emitted
C8_Witness ==
    /\ Emitted
    /\ ForSomeClass(LAMBDA ce :
           /\ Len(ce.input.fields) = 2
           /\ ce.input.fields[1].name = ce.input.fields[2].name
           /\ ce.input.fields[1].type = TInt
           /\ ce.input.fields[2].type = TDbl
           /\ Len(DictGet(ce.detail, "fields")) = 2)

-----------------------------------------------------------------------------
(* C1, under SpecOrder.                                                    *)

ClassNamesUnique(cls) == UniqueNames(cls.fields) /\ UniqueNames(cls.enums)

ModuleNamesUnique(m) ==
    /\ UniqueNames(m.classes) /\ UniqueNames(m.class_templates)
    /\ UniqueNames(m.typedefs) /\ UniqueNames(m.enums)
    /\ \A i \in 1..Len(m.classes) : ClassNamesUnique(m.classes[i])
    /\ \A i \in 1..Len(m.class_templates) : ClassNamesUnique(m.class_templates[i])

SnapshotNamesUnique(mods) ==
    UniqueNames(mods) /\ \A i \in 1..Len(mods) : ModuleNamesUnique(mods[i])

\* C1: two snapshots that hold the same entities in different insertion
\* orders, the names unique in the modules and in each collection of classes,
\* class templates, typedefs, enums and fields, give the identical structure.
C1_OrderIndependence ==
    pc = "compared" /\ SnapshotNamesUnique(modules) => result[1] = result[2]

\* a snapshot of unique names and a reordering of it, both canonicalized
C1_Witness ==
    /\ pc = "compared"
    /\ SnapshotNamesUnique(modules)
    /\ variant # modules
    /\ \E i \in 1..Len(modules) :
           Len(modules[i].classes) = 2 /\ variant[i].classes # modules[i].classes

-----------------------------------------------------------------------------
(* C7, under SpecDefaults.                                                 *)

\* C7: two snapshots that differ only in default values of parameters give
\* equal serialize_function and serialize_method signatures, equal
\* constructor_signatures and the identical structure.
C7_DefaultValueExclusion ==
    pc = "compared" => result[1] = result[2]

\* a function whose parameter has another default value in the second
\* snapshot, both canonicalized
C7_Witness ==
    /\ pc = "compared"
    /\ \E i \in 1..Len(modules) : \E j \in 1..Len(modules[i].functions) :
           /\ Len(modules[i].functions[j].args) >= 1
           /\ variant[i].functions[j].args[1][3] # modules[i].functions[j].args[1][3]

====
